---------------------------- MODULE Spec2Model ----------------------------
(***************************************************************************)
(* A model of the definitions generator of feather                         *)
(* (definitions/generator): the frontend that aggregates declaration files *)
(* into a registry of enums and expands `${Enum}` placeholders, and the    *)
(* backend that emits one source file per grouping tag plus a manifest.    *)
(*                                                                         *)
(* Strings are sequences of one-character strings, so that scanning,       *)
(* slicing, replacing and ordering are computed as the code computes them. *)
(* A BTreeMap is a sequence of [key, val] records sorted by key with       *)
(* pairwise distinct keys: its iteration order is the sequence order.      *)
(***************************************************************************)
EXTENDS Integers, Sequences, FiniteSets, TLC

VARIABLES
    files,      \* from_slice's argument: the ordered DataFiles
    loaded,     \* number of files add_to_data has consumed
    data,       \* the Data registry being built (data.enums)
    pc,         \* the call in progress: "from_slice", "generate", a pure function, "done"
    result,     \* from_slice's outcome: "running", "ok", an error, or "panic"
    generated,  \* generate's outcome: "none", "ok", "format_error" or "panic"
    dir,        \* the output directory: whether it exists, and its files
    input,      \* argument of the pure function under test (expression / literal)
    output      \* its return value, NotCalled before the call

vars == <<files, loaded, data, pc, result, generated, dir, input, output>>

----------------------------------------------------------------------------
(* Strings                                                                 *)

\* ASCII code of a character: the order of String keys in a BTreeMap.
Code(c) ==
    CASE c = "$" -> 36
      [] c = "1" -> 49
      [] c = "2" -> 50
      [] c = "3" -> 51
      [] c = "4" -> 52
      [] c = "5" -> 53
      [] c = "6" -> 54
      [] c = "A" -> 65
      [] c = "B" -> 66
      [] c = "C" -> 67
      [] c = "D" -> 68
      [] c = "E" -> 69
      [] c = "F" -> 70
      [] c = "L" -> 76
      [] c = "M" -> 77
      [] c = "O" -> 79
      [] c = "P" -> 80
      [] c = "Q" -> 81
      [] c = "X" -> 88
      [] c = "Y" -> 89
      [] c = "_" -> 95
      [] c = "a" -> 97
      [] c = "b" -> 98
      [] c = "c" -> 99
      [] c = "d" -> 100
      [] c = "e" -> 101
      [] c = "f" -> 102
      [] c = "l" -> 108
      [] c = "m" -> 109
      [] c = "o" -> 111
      [] c = "p" -> 112
      [] c = "q" -> 113
      [] c = "x" -> 120
      [] c = "y" -> 121
      [] c = "{" -> 123
      [] c = "}" -> 125

IsUpper(c) == Code(c) >= 65 /\ Code(c) <= 90
IsLower(c) == Code(c) >= 97 /\ Code(c) <= 122
IsDigit(c) == Code(c) >= 48 /\ Code(c) <= 57
IsAlnum(c) == IsUpper(c) \/ IsLower(c) \/ IsDigit(c)

UpperCase == {"A", "B", "C", "D", "E", "F", "L", "M", "O", "P", "Q", "X", "Y"}
LowerCase == {"a", "b", "c", "d", "e", "f", "l", "m", "o", "p", "q", "x", "y"}

ToUpper(c) == IF IsLower(c) THEN CHOOSE u \in UpperCase : Code(u) = Code(c) - 32 ELSE c
ToLower(c) == IF IsUpper(c) THEN CHOOSE l \in LowerCase : Code(l) = Code(c) + 32 ELSE c

\* s < t in the byte-wise lexicographic order of Rust's String.
RECURSIVE StrLess(_, _)
StrLess(s, t) ==
    IF t = <<>> THEN FALSE
    ELSE IF s = <<>> THEN TRUE
    ELSE IF Code(Head(s)) # Code(Head(t)) THEN Code(Head(s)) < Code(Head(t))
    ELSE StrLess(Tail(s), Tail(t))

\* Does pat occur in s at 0-based offset i ?
StartsAt(s, pat, i) ==
    /\ i + Len(pat) <= Len(s)
    /\ SubSeq(s, i + 1, i + Len(pat)) = pat

\* str::replace: every non-overlapping occurrence of pat, left to right.
RECURSIVE Replace(_, _, _)
Replace(s, pat, by) ==
    IF s = <<>> THEN <<>>
    ELSE IF pat # <<>> /\ StartsAt(s, pat, 0)
         THEN by \o Replace(SubSeq(s, Len(pat) + 1, Len(s)), pat, by)
    ELSE <<Head(s)>> \o Replace(Tail(s), pat, by)

\* heck's to_camel_case: words are split at non-alphanumeric characters and
\* at a lower-to-upper boundary; each word is capitalised and the words are
\* joined without a separator.
RECURSIVE CamelFrom(_, _)
CamelFrom(s, prev) ==
    IF s = <<>> THEN <<>>
    ELSE LET c == Head(s) IN
         IF ~IsAlnum(c) THEN CamelFrom(Tail(s), "_")
         ELSE IF ~IsAlnum(prev) \/ (IsLower(prev) /\ IsUpper(c))
              THEN <<ToUpper(c)>> \o CamelFrom(Tail(s), c)
         ELSE <<ToLower(c)>> \o CamelFrom(Tail(s), c)

to_camel_case(s) == CamelFrom(s, "_")

\* The text of a placeholder, format!("${{{}}}", value).
Placeholder(value) == <<"$", "{">> \o value \o <<"}">>

----------------------------------------------------------------------------
(* BTreeMap<String, V> as a key-sorted sequence of [key, val]              *)

EmptyMap == <<>>

Keys(m) == {m[i].key : i \in 1..Len(m)}

Has(m, k) == \E i \in 1..Len(m) : m[i].key = k

Get(m, k) == m[CHOOSE i \in 1..Len(m) : m[i].key = k].val

\* BTreeMap::insert: replaces the value of a present key, else inserts in order.
Insert(m, k, v) ==
    IF Has(m, k)
    THEN [i \in 1..Len(m) |-> IF m[i].key = k THEN [key |-> k, val |-> v] ELSE m[i]]
    ELSE LET n == Cardinality({i \in 1..Len(m) : StrLess(m[i].key, k)})
         IN  SubSeq(m, 1, n) \o <<[key |-> k, val |-> v]>> \o SubSeq(m, n + 1, Len(m))

\* Iterator::collect of (key, value) pairs into a BTreeMap: later pairs win.
RECURSIVE Collect(_, _)
Collect(pairs, m) ==
    IF pairs = <<>> THEN m
    ELSE Collect(Tail(pairs), Insert(m, Head(pairs).key, Head(pairs).val))

\* Iterator::zip: stops at the shorter of the two sequences.
Zip(ks, vs) ==
    LET n == IF Len(ks) < Len(vs) THEN Len(ks) ELSE Len(vs)
    IN  [i \in 1..n |-> [key |-> ks[i], val |-> vs[i]]]

RECURSIVE Flatten(_)
Flatten(ss) == IF ss = <<>> THEN <<>> ELSE Head(ss) \o Flatten(Tail(ss))

----------------------------------------------------------------------------
(* model.rs: Type, and the literals of the declaration language            *)

TBool == [tag |-> "Bool"]
TU32 == [tag |-> "U32"]
TF64 == [tag |-> "F64"]
TString == [tag |-> "String"]
TSlice(inner) == [tag |-> "Slice", inner |-> inner]
TCustom(name) == [tag |-> "Custom", name |-> name]

\* ron::Value.  A number is kept in tenths, so that rounding is a computation.
RonNumber(tenths) == [kind |-> "Number", tenths |-> tenths]
RonString(s) == [kind |-> "String", s |-> s]
RonBool(b) == [kind |-> "Bool", b |-> b]
RonSeq(items) == [kind |-> "Seq", items |-> items]
RonUnit == [kind |-> "Unit"]

\* frontend.rs: Value
VU32(n) == [tag |-> "U32", n |-> n]
VF64(tenths) == [tag |-> "F64", tenths |-> tenths]
VString(s) == [tag |-> "String", s |-> s]
VSlice(items) == [tag |-> "Slice", items |-> items]
VBool(b) == [tag |-> "Bool", b |-> b]
VCustom(s) == [tag |-> "Custom", s |-> s]

Ok(v) == [ok |-> TRUE, val |-> v]
Err(e) == [ok |-> FALSE, err |-> e]

\* f64::round (half away from zero) followed by the saturating cast `as u32`:
\* a negative number becomes 0.  (The literals of the model stay far below
\* u32::MAX, so the upper saturation never applies.)
RoundAsU32(tenths) ==
    LET r == IF tenths >= 0 THEN (tenths + 5) \div 10 ELSE 0 - ((5 - tenths) \div 10)
    IN  IF r < 0 THEN 0 ELSE r

\* Value::from_ron.  The hint typ is passed unchanged to the elements of a
\* sequence (line 145), and the first failing element fails the sequence.
RECURSIVE from_ron(_, _)
from_ron(r, typ) ==
    CASE r.kind = "Number" ->
           IF typ = TU32 THEN Ok(VU32(RoundAsU32(r.tenths)))
           ELSE IF typ = TF64 THEN Ok(VF64(r.tenths))
           ELSE Err("type_mismatch")
      [] r.kind = "String" ->
           IF typ = TString THEN Ok(VString(r.s)) ELSE Ok(VCustom(r.s))
      [] r.kind = "Seq" ->
           LET conv == [i \in 1..Len(r.items) |-> from_ron(r.items[i], typ)]
           IN  IF \E i \in 1..Len(conv) : ~conv[i].ok
               THEN Err("type_mismatch")
               ELSE Ok(VSlice([i \in 1..Len(conv) |-> conv[i].val]))
      [] r.kind = "Bool" -> Ok(VBool(r.b))
      [] OTHER -> Err("type_mismatch")

----------------------------------------------------------------------------
(* frontend.rs: expand_expr                                                *)

\* EXPR_REGEX.find: the leftmost match of \$\{[^}]+} in s, as 0-based
\* [start, end) offsets into s.
RegexStarts(s) ==
    {i \in 0..(Len(s) - 1) :
        /\ StartsAt(s, <<"$", "{">>, i)
        /\ i + 3 <= Len(s)
        /\ s[i + 3] # "}"
        /\ \E j \in (i + 4)..Len(s) : s[j] = "}"}

RegexFind(s) ==
    IF RegexStarts(s) = {} THEN [found |-> FALSE]
    ELSE LET i == CHOOSE a \in RegexStarts(s) : \A b \in RegexStarts(s) : a <= b
             j == CHOOSE a \in (i + 4)..Len(s) :
                      s[a] = "}" /\ \A b \in (i + 4)..(a - 1) : s[b] # "}"
         IN  [found |-> TRUE, start |-> i, end |-> j]

\* The offset added after a match (line 219).
OffsetStep(m) == m.end - m.start

\* The while-let loop of lines 213-220.
RECURSIVE ScanRanges(_, _, _)
ScanRanges(sliced_expr, offset, ranges) ==
    LET m == RegexFind(sliced_expr) IN
    IF ~m.found THEN ranges
    ELSE ScanRanges(SubSeq(sliced_expr, m.end + 1, Len(sliced_expr)),
                    offset + OffsetStep(m),
                    Append(ranges, [start |-> m.start + offset, end |-> m.end + offset]))

\* &expr[range.start + 2..range.end - 1]
RangeValue(expr, range) == SubSeq(expr, range.start + 3, range.end - 1)

\* The body of the inner loops, lines 233-240: every result against every variant.
ReplaceIn(results, value, variants) ==
    Flatten([r \in 1..Len(results) |->
                [v \in 1..Len(variants) |->
                    Replace(results[r], Placeholder(value), variants[v])]])

\* The for loop over ranges, lines 223-243.
RECURSIVE ExpandRanges(_, _, _, _)
ExpandRanges(expr, ranges, results, enums) ==
    IF ranges = <<>> THEN Ok(results)
    ELSE LET value == RangeValue(expr, Head(ranges)) IN
         IF ~Has(enums, value) THEN Err("unknown_enum")
         ELSE ExpandRanges(expr, Tail(ranges),
                           ReplaceIn(results, value, Get(enums, value).variants),
                           enums)

expand_expr(expr, enums) ==
    ExpandRanges(expr, ScanRanges(expr, 0, <<>>), <<expr>>, enums)

----------------------------------------------------------------------------
(* model.rs: Model; frontend.rs: Enum, Property, add_to_data               *)

\* Model::Enum
EnumDecl(name, variants) == [kind |-> "Enum", name |-> name, variants |-> variants]

\* Model::Property.  mapping is the BTreeMap<VecOrOne<String>, ron::Value> in
\* its iteration order, each entry [keys, value] with keys the one-or-many keys.
PropertyDecl(on, name, typ, mapping) ==
    [kind |-> "Property", on |-> on, name |-> name, typ |-> typ, mapping |-> mapping]

\* Enum::default()
DefaultEnum ==
    [name |-> <<>>, name_camel_case |-> <<>>, variants |-> <<>>,
     variants_camel_case |-> <<>>, properties |-> EmptyMap, file |-> <<>>]

\* entry(name).or_default(): the entry's value, a default Enum when absent.
EntryOrDefault(enums, name) == IF Has(enums, name) THEN Get(enums, name) ELSE DefaultEnum

\* DeclareEnum with the entry rebuilt from scratch on every declaration, so
\* that a re-declaration drops the properties attached so far.
DeclareEnumFresh(existing, m, file_name) ==
    [DefaultEnum EXCEPT !.name = m.name,
                        !.name_camel_case = to_camel_case(m.name),
                        !.variants_camel_case =
                            [i \in 1..Len(m.variants) |-> to_camel_case(m.variants[i])],
                        !.variants = m.variants,
                        !.file = file_name]

\* Lines 39-47: the Enum arm.  The fields assigned by the latest declaration.
DeclareEnum(existing, m, file_name) ==
    [existing EXCEPT !.name = m.name,
                     !.name_camel_case = to_camel_case(m.name),
                     !.variants_camel_case =
                         [i \in 1..Len(m.variants) |-> to_camel_case(m.variants[i])],
                     !.variants = m.variants,
                     !.file = file_name]

\* Lines 59-77: one (key, from_ron(value, typ)) pair per key of every entry.
MappingPairs(m) ==
    Flatten([i \in 1..Len(m.mapping) |->
                [k \in 1..Len(m.mapping[i].keys) |->
                    [key |-> m.mapping[i].keys[k],
                     val |-> from_ron(m.mapping[i].value, m.typ)]]])

\* Lines 56-78: the Property built from a declaration; the unwrap of line 72
\* panics when a literal fails to convert.
BuildProperty(m) ==
    LET pairs == MappingPairs(m) IN
    IF \E i \in 1..Len(pairs) : ~pairs[i].val.ok THEN Err("panic")
    ELSE Ok([name |-> m.name, typ |-> m.typ,
             mapping |-> Collect([i \in 1..Len(pairs) |->
                                     [key |-> pairs[i].key, val |-> pairs[i].val.val]],
                                 EmptyMap)])

\* PropertyTaken with the value returned by insert ignored.
PropertyTakenIgnored(existing, name) == FALSE

\* Line 80: is the name taken?  (BTreeMap::insert returned Some.)
PropertyTaken(existing, name) == Has(existing.properties, name)

\* One iteration of the loop of lines 37-85.
AddModel(enums, m, file_name) ==
    IF m.kind = "Enum"
    THEN Ok(Insert(enums, m.name, DeclareEnum(EntryOrDefault(enums, m.name), m, file_name)))
    ELSE LET existing == EntryOrDefault(enums, m.on)
             pf == BuildProperty(m)
         IN  IF ~pf.ok THEN pf
             ELSE IF PropertyTaken(existing, m.name) THEN Err("duplicate_property")
             ELSE Ok(Insert(enums, m.on,
                            [existing EXCEPT
                                !.properties = Insert(existing.properties, m.name, pf.val)]))

\* add_to_data on the parsed contents of one file: Ok(enums) or the first failure.
RECURSIVE add_to_data(_, _, _)
add_to_data(models, file_name, enums) ==
    IF models = <<>> THEN Ok(enums)
    ELSE LET r == AddModel(enums, Head(models), file_name) IN
         IF ~r.ok THEN r ELSE add_to_data(Tail(models), file_name, r.val)

----------------------------------------------------------------------------
(* frontend.rs: expand                                                     *)

\* Lines 159-163: flat_map over the variants; the unwrap of line 162 panics
\* on the first expression that fails to expand.
ExpandVariants(variants, enums) ==
    LET rs == [i \in 1..Len(variants) |-> expand_expr(variants[i], enums)] IN
    IF \E i \in 1..Len(rs) : ~rs[i].ok THEN Err("panic")
    ELSE Ok(Flatten([i \in 1..Len(rs) |-> rs[i].val]))

\* Lines 157-165: (e.name, new_variants) for every enum, in map order.
VariantReplacements(enums) ==
    [i \in 1..Len(enums) |->
        [e |-> enums[i].val.name,
         new_variants |-> ExpandVariants(enums[i].val.variants, enums)]]

\* Lines 167-169: get_mut(&e).unwrap() panics when no entry is keyed by e.
RECURSIVE ApplyVariants(_, _)
ApplyVariants(enums, replacements) ==
    IF replacements = <<>> THEN Ok(enums)
    ELSE LET r == Head(replacements) IN
         IF ~Has(enums, r.e) THEN Err("panic")
         ELSE ApplyVariants(
                  Insert(enums, r.e, [Get(enums, r.e) EXCEPT !.variants = r.new_variants.val]),
                  Tail(replacements))

\* Phase A, lines 156-169.
ExpandEnumVariants(enums) ==
    LET replacements == VariantReplacements(enums) IN
    IF \E i \in 1..Len(replacements) : ~replacements[i].new_variants.ok THEN Err("panic")
    ELSE ApplyVariants(enums, replacements)

\* Lines 184-188: a Custom value is expanded, any other value is kept.
ExpandValue(value, enums) ==
    IF value.tag = "Custom"
    THEN LET r == expand_expr(value.s, enums) IN
         IF ~r.ok THEN r ELSE Ok([i \in 1..Len(r.val) |-> VCustom(r.val[i])])
    ELSE Ok(<<value>>)

\* Lines 180-190: new_keys and new_values of one property; `?` returns the
\* first expansion error.
ExpandMapping(prop, enums) ==
    LET ks == [i \in 1..Len(prop.mapping) |-> expand_expr(prop.mapping[i].key, enums)]
        vs == [i \in 1..Len(prop.mapping) |-> ExpandValue(prop.mapping[i].val, enums)]
    IN  IF \E i \in 1..Len(ks) : ~ks[i].ok \/ ~vs[i].ok THEN Err("unknown_enum")
        ELSE Ok([new_keys |-> Flatten([i \in 1..Len(ks) |-> ks[i].val]),
                 new_values |-> Flatten([i \in 1..Len(vs) |-> vs[i].val])])

\* Lines 175-178: only properties of a Custom type are expanded.
IsCustomTyped(prop) == prop.typ.tag = "Custom"

\* Lines 172-192: (e.name, prop.name, new_keys, new_values) in map order.
PropertyReplacements(enums) ==
    Flatten([i \in 1..Len(enums) |->
        LET props == enums[i].val.properties
            custom == SelectSeq(props, LAMBDA p : IsCustomTyped(p.val))
        IN  [j \in 1..Len(custom) |->
                [e |-> enums[i].val.name,
                 prop |-> custom[j].val.name,
                 r |-> ExpandMapping(custom[j].val, enums)]]])

\* Line 198: the mapping rebuilt from the zipped keys and values.
RebuildMapping(new_keys, new_values) == Collect(Zip(new_keys, new_values), EmptyMap)

\* Lines 194-199.
RECURSIVE ApplyProperties(_, _)
ApplyProperties(enums, replacements) ==
    IF replacements = <<>> THEN Ok(enums)
    ELSE LET r == Head(replacements) IN
         IF ~Has(enums, r.e) THEN Err("panic")
         ELSE LET e == Get(enums, r.e) IN
              IF ~Has(e.properties, r.prop) THEN Err("panic")
              ELSE LET prop == Get(e.properties, r.prop)
                       new == [prop EXCEPT
                                  !.mapping = RebuildMapping(r.r.val.new_keys,
                                                             r.r.val.new_values)]
                   IN  ApplyProperties(
                           Insert(enums, r.e,
                                  [e EXCEPT !.properties = Insert(e.properties, r.prop, new)]),
                           Tail(replacements))

\* Phase B, lines 171-199, against the registry it is given.
ExpandProperties(enums) ==
    LET replacements == PropertyReplacements(enums) IN
    IF \E i \in 1..Len(replacements) : ~replacements[i].r.ok THEN Err("unknown_enum")
    ELSE ApplyProperties(enums, replacements)

\* expand with the keys and values of Phase B resolved against the variant
\* lists as declared, before Phase A has replaced them.
expandAgainstDeclared(enums) ==
    LET a == ExpandEnumVariants(enums)
        replacements == PropertyReplacements(enums)
    IN  IF ~a.ok THEN a
        ELSE IF \E i \in 1..Len(replacements) : ~replacements[i].r.ok
             THEN Err("unknown_enum")
        ELSE ApplyProperties(a.val, replacements)

\* expand: Phase A, then Phase B on its result.
expand(enums) ==
    LET a == ExpandEnumVariants(enums) IN
    IF ~a.ok THEN a ELSE ExpandProperties(a.val)

----------------------------------------------------------------------------
(* backend.rs                                                              *)

\* ident (line 172): Ident::new panics unless the text is a legal identifier.
IdentOk(s) ==
    /\ s # <<>>
    /\ ~IsDigit(s[1])
    /\ \A i \in 1..Len(s) : IsAlnum(s[i]) \/ s[i] = "_"

\* ToTokens for Value (lines 104-119): the identifiers a literal is emitted with.
RECURSIVE ValueIdentsOk(_)
ValueIdentsOk(value) ==
    CASE value.tag = "Custom" -> IdentOk(to_camel_case(value.s))
      [] value.tag = "Slice" -> \A i \in 1..Len(value.items) : ValueIdentsOk(value.items[i])
      [] OTHER -> TRUE

\* ToTokens for Type (lines 87-102).
RECURSIVE TypeIdentsOk(_)
TypeIdentsOk(typ) ==
    CASE typ.tag = "Custom" -> IdentOk(to_camel_case(typ.name))
      [] typ.tag = "Slice" -> TypeIdentsOk(typ.inner)
      [] OTHER -> TRUE

\* generate_enum_body (lines 75-85): the enumerated type.
generate_enum_body(e) == [name |-> e.name_camel_case, variants |-> e.variants_camel_case]

\* Line 130.
Exhaustive(property, e) == Len(property.mapping) = Len(e.variants)

\* Line 154: the accessor's return type, `crate::#property_type`.
ReturnType(property, exhaustive) == [option |-> FALSE, inner |-> property.typ]

\* Lines 133-145: one arm per mapping entry, in the mapping's order.
MatchArms(property, exhaustive) ==
    [i \in 1..Len(property.mapping) |->
        [variant |-> to_camel_case(property.mapping[i].key),
         some |-> ~exhaustive,
         value |-> property.mapping[i].val]]

\* Lines 126-162: the accessor of one property.
Accessor(property, e) ==
    LET exhaustive == Exhaustive(property, e) IN
    [name |-> property.name,
     ret |-> ReturnType(property, exhaustive),
     arms |-> MatchArms(property, exhaustive),
     default |-> ~exhaustive]

\* generate_enum_functions (lines 121-170).
generate_enum_functions(e) ==
    [name |-> e.name_camel_case,
     fns |-> [i \in 1..Len(e.properties) |-> Accessor(e.properties[i].val, e)]]

\* Does generate_enum(e) panic in one of its calls of ident ?
EnumIdentsOk(e) ==
    /\ IdentOk(e.name_camel_case)
    /\ \A i \in 1..Len(e.variants_camel_case) : IdentOk(e.variants_camel_case[i])
    /\ \A i \in 1..Len(e.properties) :
          LET p == e.properties[i].val IN
          /\ IdentOk(p.name)
          /\ TypeIdentsOk(p.typ)
          /\ \A j \in 1..Len(p.mapping) :
                /\ IdentOk(to_camel_case(p.mapping[j].key))
                /\ ValueIdentsOk(p.mapping[j].val)

\* generate_enum (lines 65-73).
generate_enum(e) ==
    [item |-> "enum", def |-> generate_enum_body(e), imp |-> generate_enum_functions(e)]

\* b"// This file is @generated\n"
Marker == [item |-> "marker"]

\* The stem of the manifest, mod.rs.
ModRs == <<"m", "o", "d">>

\* The output directory: absent, or present with its files (stem -> contents).
AbsentDir == [exists |-> FALSE, entries |-> EmptyMap]

\* std::fs::remove_dir (line 15): removes an empty directory and fails, with
\* the error dropped by `let _`, on an absent or a non-empty one.
remove_dir(d) == IF d.exists /\ d.entries = EmptyMap THEN AbsentDir ELSE d

\* std::fs::create_dir_all (line 16): creates the directory unless it exists.
create_dir_all(d) == IF d.exists THEN d ELSE [exists |-> TRUE, entries |-> EmptyMap]

\* Lines 23-43.  open holds the stems of open_files; a file is created (and
\* truncated) with the marker when first met, then appended to.
RECURSIVE WriteEnums(_, _, _)
WriteEnums(d, enums, open) ==
    IF enums = <<>> THEN Ok(d)
    ELSE LET e == Head(enums).val
             old == IF e.file \in open THEN Get(d.entries, e.file) ELSE <<Marker>>
         IN  IF ~EnumIdentsOk(e)
             THEN [ok |-> FALSE, err |-> "panic",
                   val |-> IF e.file \in open THEN d
                           ELSE [d EXCEPT !.entries = Insert(d.entries, e.file, <<Marker>>)]]
             ELSE WriteEnums(
                      [d EXCEPT !.entries = Insert(d.entries, e.file,
                                                   Append(old, generate_enum(e)))],
                      Tail(enums), open \cup {e.file})

\* Line 25: the HashSet of module names.
ModuleNames(enums) == {enums[i].val.file : i \in 1..Len(enums)}

\* Lines 46-52: mod.rs, its entries in the HashSet's iteration order.
WriteManifest(d, order) ==
    [d EXCEPT !.entries =
        Insert(d.entries, ModRs,
               <<Marker>> \o [i \in 1..Len(order) |-> [item |-> "mod", name |-> order[i]]])]

\* generate (lines 14-63) up to the formatting loop: the directory as left by
\* the run, for one iteration order of module_names.
generate(target_dir, enums, order) ==
    LET w == WriteEnums(create_dir_all(remove_dir(target_dir)), enums, {}) IN
    IF ~w.ok THEN w ELSE Ok(WriteManifest(w.val, order))

\* The orders in which a HashSet may be iterated.
Orders(S) == {o \in [1..Cardinality(S) -> S] : \A x \in S : \E i \in DOMAIN o : o[i] = x}


----------------------------------------------------------------------------
(* The inputs                                                              *)

\* Bounds of the model.
MaxDecls == 3       \* declarations in a run of the loading family
MaxChain == 4       \* declarations (one per file) in a run of the expansion family
MaxPieces == 4      \* literal pieces and placeholders of an expression
MaxSeqLen == 2      \* elements of a sequence literal

nA == <<"A">>
nB == <<"B">>
nC == <<"C">>
nD == <<"D">>
nE == <<"E">>
sa == <<"a">>
sb == <<"b">>
sp == <<"p">>
sq == <<"q">>
sx == <<"x">>
sy == <<"y">>

Digits == <<"1", "2", "3", "4", "5", "6">>

\* The stem of the k-th file of a run.
FileName(k) == <<"f", Digits[k]>>

Entry(keys, value) == [keys |-> keys, value |-> value]

\* Declarations of the loading family: declared and re-declared enums,
\* properties that share a name on one enum and across enums, a property
\* whose literal does not convert.
LoadDecls ==
    { EnumDecl(nE, <<sa, sb>>),
      EnumDecl(nE, <<<<"x", "_", "p">>>>),
      EnumDecl(nA, <<sp>>),
      PropertyDecl(nE, sp, TU32, <<Entry(<<sa>>, RonNumber(15))>>),
      PropertyDecl(nE, sp, TString, <<Entry(<<sa, sb>>, RonString(sx))>>),
      PropertyDecl(nA, sp, TBool, <<Entry(<<sp>>, RonBool(TRUE))>>),
      PropertyDecl(nE, sq, TF64, <<Entry(<<sb>>, RonNumber(25))>>),
      PropertyDecl(nE, sq, TString, <<Entry(<<sa>>, RonNumber(10))>>) }

\* Declarations of the expansion family: variant templates (chained, and one
\* naming an undeclared enum), Custom-typed properties with templates as keys
\* and values, and exhaustive and partial properties.
ExpandDecls ==
    { EnumDecl(nA, <<Placeholder(nB)>>),
      EnumDecl(nB, <<Placeholder(nC) \o <<"_", "x">>>>),
      EnumDecl(nC, <<sp, sq>>),
      EnumDecl(nE, <<Placeholder(nD)>>),
      PropertyDecl(nC, sa, TCustom(nA), <<Entry(<<Placeholder(nA)>>, RonString(sx))>>),
      PropertyDecl(nC, sb, TCustom(nC), <<Entry(<<Placeholder(nD)>>, RonString(sx))>>),
      PropertyDecl(nC, sx, TCustom(nC),
                   <<Entry(<<Placeholder(nC)>>, RonString(Placeholder(nC)))>>),
      PropertyDecl(nC, sy, TU32, <<Entry(<<sp>>, RonNumber(10))>>),
      PropertyDecl(nC, sq, TU32, <<Entry(<<sp, sq>>, RonNumber(20))>>),
      PropertyDecl(nC, sp, TString,
                   <<Entry(<<sp>>, RonString(sa)), Entry(<<sx>>, RonString(sb))>>) }

SeqsUpTo(S, n) == UNION {[1..k -> S] : k \in 1..n}

InjectiveSeqsUpTo(S, n) ==
    {s \in SeqsUpTo(S, n) : \A i, j \in 1..Len(s) : i # j => s[i] # s[j]}

\* The declarations ds in files: a new file starts after each position of cuts.
Split(ds, cuts) ==
    LET FileOf(i) == Cardinality({c \in cuts : c < i}) + 1
        First(g) == CHOOSE i \in 1..Len(ds) :
                        FileOf(i) = g /\ \A j \in 1..(i - 1) : FileOf(j) # g
        Count(g) == Cardinality({i \in 1..Len(ds) : FileOf(i) = g})
    IN  [g \in 1..(Cardinality(cuts) + 1) |->
            [name |-> FileName(g),
             contents |-> SubSeq(ds, First(g), First(g) + Count(g) - 1)]]

\* The ways to put the declarations ds in files.
LoadFileLists(ds) == {Split(ds, cuts) : cuts \in SUBSET (1..(Len(ds) - 1))}

\* The declarations ds, one per file.
OnePerFile(ds) == Split(ds, 1..(Len(ds) - 1))

\* What an earlier run left in the output directory.
StaleDir ==
    [exists |-> TRUE,
     entries |-> Insert(Insert(EmptyMap, <<"o", "l", "d">>, <<Marker>>), ModRs,
                        <<Marker, [item |-> "mod", name |-> <<"o", "l", "d">>]>>)]

NotCalled == Err("not_called")

----------------------------------------------------------------------------
(* lib.rs: load_directory runs from_slice, then generate                   *)

InitRun(fileLists) ==
    /\ files \in fileLists
    /\ loaded = 0
    /\ data = EmptyMap
    /\ pc = "from_slice"
    /\ result = "running"
    /\ generated = "none"
    /\ dir \in {AbsentDir, StaleDir}
    /\ input = <<>>
    /\ output = NotCalled

\* from_slice, lines 20-23: one iteration of the loop, add_to_data on a file.
LoadFile ==
    /\ pc = "from_slice"
    /\ loaded < Len(files)
    /\ LET f == files[loaded + 1]
           r == add_to_data(f.contents, f.name, data)
       IN  IF r.ok
           THEN /\ data' = r.val
                /\ loaded' = loaded + 1
                /\ UNCHANGED <<pc, result>>
           ELSE /\ data' = EmptyMap
                /\ result' = r.err
                /\ pc' = "done"
                /\ UNCHANGED loaded
    /\ UNCHANGED <<files, generated, dir, input, output>>

\* from_slice, lines 24-26: expand, then Ok(data).
Expand ==
    /\ pc = "from_slice"
    /\ loaded = Len(files)
    /\ LET r == expand(data)
       IN  IF r.ok
           THEN /\ data' = r.val
                /\ result' = "ok"
                /\ pc' = "generate"
           ELSE /\ data' = EmptyMap
                /\ result' = r.err
                /\ pc' = "done"
    /\ UNCHANGED <<files, loaded, generated, dir, input, output>>

\* backend::generate.  The iteration order of module_names and the exit
\* status of rustfmt are not decided by the program.
Generate ==
    /\ pc = "generate"
    /\ \E order \in Orders(ModuleNames(data)), fmt_ok \in BOOLEAN :
          LET r == generate(dir, data, order)
          IN  /\ dir' = r.val
              /\ generated' = IF ~r.ok THEN "panic"
                              ELSE IF fmt_ok THEN "ok" ELSE "format_error"
    /\ pc' = "done"
    /\ UNCHANGED <<files, loaded, data, result, input, output>>

Next == LoadFile \/ Expand \/ Generate

Init == \E ds \in SeqsUpTo(LoadDecls, MaxDecls) : InitRun(LoadFileLists(ds))

Spec == Init /\ [][Next]_vars

InitExpand == \E ds \in InjectiveSeqsUpTo(ExpandDecls, MaxChain) : InitRun({OnePerFile(ds)})

SpecExpand == InitExpand /\ [][Next]_vars

----------------------------------------------------------------------------
(* expand_expr and Value::from_ron called on their own                     *)

Lit(s) == [kind |-> "lit", text |-> s]
Ref(name) == [kind |-> "ref", text |-> name]

\* The pieces an expression is written from: literal text and placeholders,
\* the last one naming an enum the registry does not hold.
Pieces == {Lit(sa), Lit(<<"_">>), Ref(nA), Ref(nB), Ref(nD)}

PieceText(piece) == IF piece.kind = "ref" THEN Placeholder(piece.text) ELSE piece.text

ExprOf(pieces) == Flatten([i \in 1..Len(pieces) |-> PieceText(pieces[i])])

\* The registry expand_expr is called with: A = [x, y] and B = [p, q, b].
ExprRegistry ==
    add_to_data(<<EnumDecl(nA, <<sx, sy>>), EnumDecl(nB, <<sp, sq, sb>>)>>,
                FileName(1), EmptyMap).val

InitPure(position, inputs, enums) ==
    /\ files = <<>>
    /\ loaded = 0
    /\ data = enums
    /\ pc = position
    /\ result = "running"
    /\ generated = "none"
    /\ dir = AbsentDir
    /\ input \in inputs
    /\ output = NotCalled

InitExpr ==
    InitPure("expand_expr",
             {[pieces |-> ps, expr |-> ExprOf(ps)] : ps \in SeqsUpTo(Pieces, MaxPieces)},
             ExprRegistry)

CallExpandExpr ==
    /\ pc = "expand_expr"
    /\ output' = expand_expr(input.expr, data)
    /\ pc' = "done"
    /\ UNCHANGED <<files, loaded, data, result, generated, dir, input>>

SpecExpr == InitExpr /\ [][CallExpandExpr]_vars

ScalarLiterals ==
    {RonNumber(15), RonNumber(0 - 4), RonString(sx), RonBool(TRUE), RonUnit}

Literals ==
    ScalarLiterals
    \cup {RonSeq(items) :
             items \in {<<>>} \cup SeqsUpTo(ScalarLiterals \cup {RonSeq(<<RonNumber(15)>>)},
                                            MaxSeqLen)}

Types ==
    {TBool, TU32, TF64, TString, TCustom(nE),
     TSlice(TU32), TSlice(TString), TSlice(TSlice(TU32))}

InitRon == InitPure("from_ron", {[r |-> r, typ |-> t] : r \in Literals, t \in Types}, EmptyMap)

CallFromRon ==
    /\ pc = "from_ron"
    /\ output' = from_ron(input.r, input.typ)
    /\ pc' = "done"
    /\ UNCHANGED <<files, loaded, data, result, generated, dir, input>>

SpecRon == InitRon /\ [][CallFromRon]_vars

----------------------------------------------------------------------------
(* What the input files declare, read off the files themselves             *)

\* The declarations of fs in load order, each with the name of its file.
DeclsOf(fs) ==
    Flatten([f \in 1..Len(fs) |->
                [k \in 1..Len(fs[f].contents) |->
                    [m |-> fs[f].contents[k], file |-> fs[f].name]]])

AllDecls == DeclsOf(files)

LoadedDecls == DeclsOf(SubSeq(files, 1, loaded))

IsEnumDecl(d) == d.m.kind = "Enum"
IsPropertyDecl(d) == d.m.kind = "Property"

\* Pairs of Property declarations with the same name on the same enum.
DuplicatePairs ==
    {ij \in (1..Len(AllDecls)) \X (1..Len(AllDecls)) :
        /\ ij[1] < ij[2]
        /\ IsPropertyDecl(AllDecls[ij[1]])
        /\ IsPropertyDecl(AllDecls[ij[2]])
        /\ AllDecls[ij[1]].m.on = AllDecls[ij[2]].m.on
        /\ AllDecls[ij[1]].m.name = AllDecls[ij[2]].m.name}

\* Every literal of every Property declaration is one Value::from_ron converts.
AllLiteralsConvert ==
    \A i \in 1..Len(AllDecls) :
        IsPropertyDecl(AllDecls[i]) =>
            \A k \in 1..Len(AllDecls[i].m.mapping) :
                from_ron(AllDecls[i].m.mapping[k].value, AllDecls[i].m.typ).ok

EnumNamesIn(ds) == {ds[i].m.name : i \in {j \in 1..Len(ds) : IsEnumDecl(ds[j])}}

PropertyTargetsIn(ds) == {ds[i].m.on : i \in {j \in 1..Len(ds) : IsPropertyDecl(ds[j])}}

\* The names of the properties ds declares on enum n.
PropertyNamesIn(ds, n) ==
    {ds[i].m.name : i \in {j \in 1..Len(ds) : IsPropertyDecl(ds[j]) /\ ds[j].m.on = n}}

\* The last Enum declaration of n in ds.
LastEnumDecl(ds, n) ==
    ds[CHOOSE i \in 1..Len(ds) :
          /\ IsEnumDecl(ds[i]) /\ ds[i].m.name = n
          /\ \A j \in (i + 1)..Len(ds) : ~(IsEnumDecl(ds[j]) /\ ds[j].m.name = n)]

\* Enums that properties target and no Enum declaration declares.
Orphans == PropertyTargetsIn(AllDecls) \ EnumNamesIn(AllDecls)

----------------------------------------------------------------------------
(* C1 *)

\* C1: when two Property declarations with the same name target the same
\* enum, in one file or in two, in whatever order the files come, from_slice
\* fails with the duplicate-property error and returns no registry; the same
\* name on different enums never raises it.  (Stated for files whose literals
\* all convert: a literal that does not convert ends the load first.)
C1_DuplicateRejected ==
    /\ result = "duplicate_property" => DuplicatePairs # {}
    /\ DuplicatePairs # {} => result # "ok"
    /\ (pc # "from_slice" /\ AllLiteralsConvert /\ DuplicatePairs # {})
           => result = "duplicate_property"

\* The duplicate-property error raised by a second declaration that sits in a
\* later file than the first, while the same name is also used on another enum.
C1_Witness ==
    /\ result = "duplicate_property"
    /\ \E ij \in DuplicatePairs : AllDecls[ij[1]].file # AllDecls[ij[2]].file
    /\ \E i, j \in 1..Len(AllDecls) :
          /\ IsPropertyDecl(AllDecls[i]) /\ IsPropertyDecl(AllDecls[j])
          /\ AllDecls[i].m.name = AllDecls[j].m.name
          /\ AllDecls[i].m.on # AllDecls[j].m.on

----------------------------------------------------------------------------
(* C6 *)

\* C6: while files are loaded, the entry of every declared enum carries the
\* variant list, the identifier forms and the grouping tag of its latest Enum
\* declaration, and its property map holds every property declared on it so
\* far, before or after a re-declaration.
C6_LastEnumDeclWins ==
    (pc = "from_slice" /\ result = "running") =>
        \A n \in EnumNamesIn(LoadedDecls) :
            /\ Has(data, n)
            /\ LET e == Get(data, n)
                   last == LastEnumDecl(LoadedDecls, n)
               IN  /\ e.name = n
                   /\ e.name_camel_case = to_camel_case(n)
                   /\ e.variants = last.m.variants
                   /\ e.variants_camel_case =
                          [i \in 1..Len(last.m.variants) |-> to_camel_case(last.m.variants[i])]
                   /\ e.file = last.file
                   /\ Keys(e.properties) = PropertyNamesIn(LoadedDecls, n)
                   /\ \A i \in 1..Len(LoadedDecls) :
                          (IsPropertyDecl(LoadedDecls[i]) /\ LoadedDecls[i].m.on = n) =>
                              Get(e.properties, LoadedDecls[i].m.name).typ
                                  = LoadedDecls[i].m.typ

\* All files loaded, with an enum declared, given a property, and declared
\* again in a later file with another variant list.
C6_Witness ==
    /\ pc = "from_slice"
    /\ result = "running"
    /\ loaded = Len(files)
    /\ \E i, j, k \in 1..Len(LoadedDecls) :
          /\ i < j /\ j < k
          /\ IsEnumDecl(LoadedDecls[i]) /\ IsEnumDecl(LoadedDecls[k])
          /\ IsPropertyDecl(LoadedDecls[j])
          /\ LoadedDecls[i].m.name = LoadedDecls[k].m.name
          /\ LoadedDecls[j].m.on = LoadedDecls[i].m.name
          /\ LoadedDecls[i].m.variants # LoadedDecls[k].m.variants
          /\ LoadedDecls[i].file # LoadedDecls[k].file

----------------------------------------------------------------------------
(* C2 *)

\* The list the nested loops over the placeholders of pieces produce, the
\* leftmost placeholder outermost.
RECURSIVE Product(_, _)
Product(pieces, enums) ==
    IF pieces = <<>> THEN <<<<>>>>
    ELSE LET rest == Product(Tail(pieces), enums)
             h == Head(pieces)
         IN  IF h.kind = "lit"
             THEN [i \in 1..Len(rest) |-> h.text \o rest[i]]
             ELSE LET vs == Get(enums, h.text).variants
                  IN  Flatten([v \in 1..Len(vs) |->
                                  [i \in 1..Len(rest) |-> vs[v] \o rest[i]]])

RefsOf(pieces) == {i \in 1..Len(pieces) : pieces[i].kind = "ref"}

\* C2: for a string with one or more placeholders, all naming enums of the
\* registry (the same enum possibly more than once), expand_expr returns one
\* string per tuple of the cartesian product of the referenced variant lists,
\* placeholder i replaced by the i-th component, the leftmost placeholder
\* varying slowest.
C2_CartesianProduct ==
    (/\ pc = "done"
     /\ RefsOf(input.pieces) # {}
     /\ \A i \in RefsOf(input.pieces) : Has(data, input.pieces[i].text))
        => output = Ok(Product(input.pieces, data))

----------------------------------------------------------------------------
(* C3 *)

Names == {nA, nB, nC, nD, nE}

Occurs(s, pat) == \E i \in 0..Len(s) : StartsAt(s, pat, i)

\* The enums a string names in a placeholder.
RefsIn(s) == {n \in Names : Occurs(s, Placeholder(n))}

\* The strings expand scans: the variants of every enum as last declared, and
\* the keys and string values of every Custom-typed property.
ScannedStrings ==
    UNION {{LastEnumDecl(AllDecls, n).m.variants[i] :
               i \in 1..Len(LastEnumDecl(AllDecls, n).m.variants)} :
           n \in EnumNamesIn(AllDecls)}
    \cup UNION {LET m == AllDecls[i].m IN
                IF IsPropertyDecl(AllDecls[i]) /\ m.typ.tag = "Custom"
                THEN UNION {{m.mapping[k].keys[j] : j \in 1..Len(m.mapping[k].keys)}
                            \cup (IF m.mapping[k].value.kind = "String"
                                  THEN {m.mapping[k].value.s} ELSE {}) :
                            k \in 1..Len(m.mapping)}
                ELSE {} :
                i \in 1..Len(AllDecls)}

\* Some scanned placeholder names an enum that the registry does not hold.
UnknownReference ==
    \E s \in ScannedStrings :
        RefsIn(s) \ (EnumNamesIn(AllDecls) \cup PropertyTargetsIn(AllDecls)) # {}

\* C3: when a placeholder, in a variant list or in a key or value of a
\* Custom-typed property, names an enum absent from the registry, from_slice
\* returns the unknown-enum-reference error: it neither panics nor returns a
\* registry.  (Stated for files with no other fault: every property's enum is
\* declared, no property is declared twice, every literal converts.)
C3_UnknownReferenceIsError ==
    (/\ pc # "from_slice"
     /\ UnknownReference
     /\ Orphans = {} /\ DuplicatePairs = {} /\ AllLiteralsConvert)
        => result = "unknown_enum"

----------------------------------------------------------------------------
(* C4, C5 *)

\* The accessors written for enum e, in the order of e.properties.
EmittedFns(e) ==
    LET items == Get(dir.entries, e.file)
        i == CHOOSE k \in 1..Len(items) :
                 items[k].item = "enum" /\ items[k].def.name = e.name_camel_case
    IN  items[i].imp.fns

\* Every variant of e has an entry in the mapping of property.
Covers(property, e) ==
    \A v \in 1..Len(e.variants) : Has(property.mapping, e.variants[v])

\* C4: an accessor is emitted without a default arm exactly when every variant
\* of the enum has an entry in the property's mapping, and then it has one arm
\* per variant; otherwise it has one arm per mapping entry and a default arm.
C4_NoDefaultIffExhaustive ==
    generated = "ok" =>
        \A i \in 1..Len(data) : \A j \in 1..Len(data[i].val.properties) :
            LET e == data[i].val
                p == e.properties[j].val
                fn == EmittedFns(e)[j]
            IN  /\ ~fn.default <=> Covers(p, e)
                /\ Covers(p, e) =>
                      /\ Len(fn.arms) = Len(e.variants)
                      /\ \A v \in 1..Len(e.variants) :
                            \E a \in 1..Len(fn.arms) :
                                fn.arms[a].variant = to_camel_case(e.variants[v])
                /\ ~Covers(p, e) => Len(fn.arms) = Len(p.mapping)

\* The keys of the mapping are variants of e, and e lists no variant twice:
\* the properties for which counting entries and covering variants agree.
KeysAreVariants(property, e) ==
    /\ \A k \in 1..Len(property.mapping) :
          \E v \in 1..Len(e.variants) : e.variants[v] = property.mapping[k].key
    /\ \A v, w \in 1..Len(e.variants) : v # w => e.variants[v] # e.variants[w]

\* C5: the accessor of a partial property of type T returns Option<T>, every
\* arm wrapping its literal in a present value and the default arm returning
\* the absent one; the accessor of an exhaustive property returns T and its
\* arms return the bare literal.  (Stated for properties whose keys are
\* variants of their enum.)
C5_PartialReturnsOption ==
    generated = "ok" =>
        \A i \in 1..Len(data) : \A j \in 1..Len(data[i].val.properties) :
            LET e == data[i].val
                p == e.properties[j].val
                fn == EmittedFns(e)[j]
            IN  KeysAreVariants(p, e) =>
                    IF Covers(p, e)
                    THEN /\ fn.ret = [option |-> FALSE, inner |-> p.typ]
                         /\ \A a \in 1..Len(fn.arms) : ~fn.arms[a].some
                         /\ ~fn.default
                    ELSE /\ fn.ret = [option |-> TRUE, inner |-> p.typ]
                         /\ \A a \in 1..Len(fn.arms) : fn.arms[a].some
                         /\ fn.default

----------------------------------------------------------------------------
(* C7 *)

\* C7: a property whose enum no file declares leaves from_slice successful,
\* the registry holding that enum under the property's `on` name, without
\* variants and with the property attached.  (Stated for files with no other
\* fault: no property is declared twice and every literal converts.)
C7_ImplicitEnumKept ==
    (/\ pc # "from_slice"
     /\ Orphans # {}
     /\ DuplicatePairs = {} /\ AllLiteralsConvert)
        => /\ result = "ok"
           /\ \A n \in Orphans :
                 /\ Has(data, n)
                 /\ Get(data, n).variants = <<>>
                 /\ Keys(Get(data, n).properties) = PropertyNamesIn(AllDecls, n)

----------------------------------------------------------------------------
(* C8 *)

\* The tag of value is the one the declared type typ asks for.
RECURSIVE TagMatches(_, _)
TagMatches(value, typ) ==
    IF typ.tag = "Slice"
    THEN /\ value.tag = "Slice"
         /\ \A i \in 1..Len(value.items) : TagMatches(value.items[i], typ.inner)
    ELSE value.tag = typ.tag

\* C8: Value::from_ron never returns a value whose tag differs from the type
\* hint, whatever the shape of the literal and the declared type.
C8_TagMatchesType == (pc = "done" /\ output.ok) => TagMatches(output.val, input.typ)

----------------------------------------------------------------------------
(* C9 *)

\* s contains a placeholder ${...}.
HasPlaceholder(s) ==
    \E i \in 1..Len(s) :
        /\ StartsAt(s, <<"$", "{">>, i - 1)
        /\ \E j \in (i + 3)..Len(s) : s[j] = "}" /\ \A k \in (i + 2)..(j - 1) : s[k] # "}"

\* C9: after from_slice has succeeded, no mapping key of a Custom-typed
\* property contains a placeholder, also when the enum a key names has
\* templates as variants that name further enums.
C9_KeysPlaceholderFree ==
    result = "ok" =>
        \A i \in 1..Len(data) : \A j \in 1..Len(data[i].val.properties) :
            LET p == data[i].val.properties[j].val IN
            p.typ.tag = "Custom" =>
                \A k \in 1..Len(p.mapping) : ~HasPlaceholder(p.mapping[k].key)

----------------------------------------------------------------------------
(* C10 *)

\* C10: after a successful generate the output directory holds the files of
\* this run only, one per grouping tag and the manifest: no file of an earlier
\* run that this run does not write survives.
C10_OnlyThisRunsFiles ==
    generated = "ok" => Keys(dir.entries) = ModuleNames(data) \cup {ModRs}

----------------------------------------------------------------------------
(* C11 *)

\* C11: two runs of generate on the same registry and the same output
\* directory leave the same content in every file, the manifest included
\* when the registry has two or more grouping tags: whatever order the module
\* names are iterated in, the files written are the same.
C11_SameInputsSameFiles ==
    pc = "generate" =>
        \A first, second \in Orders(ModuleNames(data)) :
            generate(dir, data, first) = generate(dir, data, second)

----------------------------------------------------------------------------
(* C12 *)

\* The names written in the placeholders of pieces, left to right.
RECURSIVE WrittenNames(_)
WrittenNames(pieces) ==
    IF pieces = <<>> THEN <<>>
    ELSE IF Head(pieces).kind = "ref"
         THEN <<Head(pieces).text>> \o WrittenNames(Tail(pieces))
         ELSE WrittenNames(Tail(pieces))

\* The names expand_expr takes from expr, one per range of its scan.
ScannedNames(expr) ==
    LET ranges == ScanRanges(expr, 0, <<>>)
    IN  [i \in 1..Len(ranges) |-> RangeValue(expr, ranges[i])]

\* The lookups made for names: they stop at the first name enums lacks.
RECURSIVE Lookups(_, _)
Lookups(names, enums) ==
    IF names = <<>> THEN <<>>
    ELSE IF Has(enums, Head(names))
         THEN <<Head(names)>> \o Lookups(Tail(names), enums)
         ELSE <<Head(names)>>

\* C12: for a string with one or more placeholders, with or without literal
\* text before the first placeholder and between placeholders, the i-th enum
\* expand_expr looks up is the name written in the i-th placeholder; hence
\* the call succeeds when every name written is an enum of the registry.
C12_LooksUpWrittenNames ==
    (pc = "done" /\ RefsOf(input.pieces) # {}) =>
        /\ Lookups(ScannedNames(input.expr), data)
               = Lookups(WrittenNames(input.pieces), data)
        /\ (\A i \in RefsOf(input.pieces) : Has(data, input.pieces[i].text))
               => output.ok

----------------------------------------------------------------------------
(* C13 *)

\* The literal r has the shape the declared type typ asks for.
RECURSIVE WellTyped(_, _)
WellTyped(r, typ) ==
    CASE typ.tag = "Slice" ->
           /\ r.kind = "Seq"
           /\ \A i \in 1..Len(r.items) : WellTyped(r.items[i], typ.inner)
      [] typ.tag \in {"U32", "F64"} -> r.kind = "Number"
      [] typ.tag \in {"String", "Custom"} -> r.kind = "String"
      [] typ.tag = "Bool" -> r.kind = "Bool"

\* The value of a well-typed literal when every element of a sequence is
\* converted under the element type of the slice.
RECURSIVE ElementwiseValue(_, _)
ElementwiseValue(r, typ) ==
    IF r.kind = "Seq"
    THEN VSlice([i \in 1..Len(r.items) |-> ElementwiseValue(r.items[i], typ.inner)])
    ELSE from_ron(r, typ).val

\* C13: a sequence literal under the declared type slice<T> is converted
\* element by element under T: numbers under slice<u32> give a Slice of U32
\* values, strings under slice<string> a Slice of String values, and the
\* conversion of a well-typed sequence does not fail.
C13_SliceElementsUnderElementType ==
    (/\ pc = "done"
     /\ input.typ.tag = "Slice"
     /\ WellTyped(input.r, input.typ))
        => output = Ok(ElementwiseValue(input.r, input.typ))

----------------------------------------------------------------------------
(* C14 *)

\* Declarations of the alignment family: Custom-typed properties whose keys
\* and values expand to as many strings, to more keys than values, and to
\* more values than keys, next to a property with a shared value and one
\* whose key and value name an enum with a template as variant.
AlignDecls ==
    { EnumDecl(nC, <<sp, sq>>),
      EnumDecl(nB, <<Placeholder(nC) \o <<"_", "x">>>>),
      PropertyDecl(nC, sx, TCustom(nC),
                   <<Entry(<<Placeholder(nC)>>, RonString(Placeholder(nC)))>>),
      PropertyDecl(nC, sa, TCustom(nB), <<Entry(<<Placeholder(nC)>>, RonString(sx))>>),
      PropertyDecl(nC, sb, TCustom(nB),
                   <<Entry(<<sp>>, RonString(Placeholder(nC))), Entry(<<sq>>, RonString(sy))>>),
      PropertyDecl(nB, sy, TCustom(nC), <<Entry(<<sp, sq>>, RonString(sx))>>),
      PropertyDecl(nC, sq, TCustom(nB),
                   <<Entry(<<Placeholder(nB)>>, RonString(Placeholder(nB)))>>) }

InitAlign == \E ds \in InjectiveSeqsUpTo(AlignDecls, MaxChain) : InitRun({OnePerFile(ds)})

SpecAlign == InitAlign /\ [][Next]_vars

Elements(s) == {s[i] : i \in 1..Len(s)}

\* The strings the key of entry i of the loaded mapping expands to, and the
\* values its value expands to, against the registry enums.
ExpandedKeys(mapping, i, enums) == Elements(expand_expr(mapping[i].key, enums).val)

ExpandedValues(mapping, i, enums) == Elements(ExpandValue(mapping[i].val, enums).val)

\* C14: after expansion the mapping of a Custom-typed property has one entry
\* per distinct expanded key, and every expanded key is paired with a value
\* obtained from the value of the declared entry the key comes from: no
\* expanded key is dropped or paired with the value of another entry, also
\* when a key expands to more strings than its value.
C14_EntriesStayAligned ==
    result = "ok" =>
        \A d \in 1..Len(AllDecls) :
            (IsPropertyDecl(AllDecls[d]) /\ AllDecls[d].m.typ.tag = "Custom") =>
                LET m == AllDecls[d].m
                    declared == BuildProperty(m).val.mapping
                    expanded == Get(Get(data, m.on).properties, m.name).mapping
                IN  /\ Keys(expanded) =
                           UNION {ExpandedKeys(declared, i, data) : i \in 1..Len(declared)}
                    /\ \A k \in 1..Len(expanded) :
                           \E i \in 1..Len(declared) :
                               /\ expanded[k].key \in ExpandedKeys(declared, i, data)
                               /\ expanded[k].val \in ExpandedValues(declared, i, data)

----------------------------------------------------------------------------
(* C15 *)

\* The casing transform of every variant of a list, in order.
CasedVariants(variants) == [i \in 1..Len(variants) |-> to_camel_case(variants[i])]

\* C15: after from_slice has succeeded, the identifier-form list of every
\* enum is as long as its expanded variant list and its i-th element is the
\* casing transform of the i-th variant, so that the enumerated type written
\* for the enum has one variant per final variant, in the same order, also
\* when the declared variants contain placeholders.
C15_IdentifierFormsFollowVariants ==
    result = "ok" =>
        \A i \in 1..Len(data) :
            LET e == data[i].val IN
            /\ Len(e.variants_camel_case) = Len(e.variants)
            /\ e.variants_camel_case = CasedVariants(e.variants)
            /\ generate_enum_body(e).variants = CasedVariants(e.variants)

----------------------------------------------------------------------------
(* C16 *)

\* The Custom-typed Property declarations of the files.
CustomDecls == {d \in 1..Len(AllDecls) :
                   IsPropertyDecl(AllDecls[d]) /\ AllDecls[d].m.typ.tag = "Custom"}

\* C16: nothing is expanded while files are being loaded: the registry holds
\* the variant lists and the mappings as declared, so that a placeholder may
\* name an enum of a later file and the unknown-enum error is raised only for
\* a name no file declares.  After a successful load every key and value of
\* a Custom-typed property is one of the strings its declared key or value
\* expands to against the variant lists as Phase A left them, never against
\* the declared lists.
C16_ExpansionAfterLoading ==
    /\ (pc = "from_slice" /\ result = "running") =>
           /\ \A n \in EnumNamesIn(LoadedDecls) :
                  Get(data, n).variants = LastEnumDecl(LoadedDecls, n).m.variants
           /\ \A d \in 1..Len(LoadedDecls) :
                  IsPropertyDecl(LoadedDecls[d]) =>
                      LET m == LoadedDecls[d].m IN
                      Get(Get(data, m.on).properties, m.name).mapping
                          = BuildProperty(m).val.mapping
    /\ result = "unknown_enum" => UnknownReference
    /\ result = "ok" =>
           \A d \in CustomDecls :
               LET m == AllDecls[d].m
                   declared == BuildProperty(m).val.mapping
                   expanded == Get(Get(data, m.on).properties, m.name).mapping
               IN  /\ declared # <<>> => expanded # <<>>
                   /\ \A k \in 1..Len(expanded) :
                          /\ \E i \in 1..Len(declared) :
                                 expanded[k].key \in ExpandedKeys(declared, i, data)
                          /\ \E i \in 1..Len(declared) :
                                 expanded[k].val \in ExpandedValues(declared, i, data)

\* A successful load in which a Custom-typed property names, in a key, an
\* enum that is declared in a later file and whose declared variant is a
\* template, so that its list after Phase A differs from the declared one.
C16_Witness ==
    /\ result = "ok"
    /\ \E d \in CustomDecls : \E e \in 1..Len(AllDecls) :
          /\ d < e
          /\ IsEnumDecl(AllDecls[e])
          /\ AllDecls[d].file # AllDecls[e].file
          /\ \E i \in 1..Len(AllDecls[d].m.mapping) :
                 AllDecls[d].m.mapping[i].keys[1] = Placeholder(AllDecls[e].m.name)
          /\ Get(data, AllDecls[e].m.name).variants # AllDecls[e].m.variants
          /\ Get(Get(data, AllDecls[d].m.on).properties, AllDecls[d].m.name).mapping # <<>>

=============================================================================
